---- MODULE Spec2Model ----
\* Model of grammar_based_string_generator.py: the parse actions that build the
\* rule tree, and the bounded random walk over that tree (State, the
\* *GeneratorRule.random_walk methods, and the part of main that runs them).
\* The recursion of random_walk is modelled by an explicit call stack.
EXTENDS Integers, Sequences, FiniteSets, TLC

\* ---------------------------------------------------------------------------
\* Bounds of the model
\* ---------------------------------------------------------------------------
MaxDepthBound == 6      \* --max-depth ranges over 0..MaxDepthBound
MaxLengthBound == 3     \* --max-length ranges over -1..MaxLengthBound
MaxLiteral == 2         \* integer literals of the grammar text denote 0..MaxLiteral

\* ---------------------------------------------------------------------------
\* Grammar text, as the token structure the pyparsing grammar hands to the
\* parse actions
\* ---------------------------------------------------------------------------
Str(t) == [form |-> "string", text |-> t]
Ref(n) == [form |-> "ref", name |-> n]
Opt(x) == [form |-> "opt", operand |-> x]
Zom(x, N) == [form |-> "zom", operand |-> x, N |-> N]
Oom(x, N) == [form |-> "oom", operand |-> x, N |-> N]
Rep(x, m, n) == [form |-> "repeat", operand |-> x, m |-> m, n |-> n]
SeqOf(items) == [form |-> "sequence", items |-> items]
ChoiceOf(items) == [form |-> "choice", items |-> items]
Rule(name, body) == [form |-> "named", name |-> name, body |-> body]

\* INTEGER tokens: digit strings matching [0-9]+, here one digit, or a digit
\* with a leading zero
IntegerLiterals == {<<d>> : d \in 0..MaxLiteral} \cup {<<0, 1>>}

StartNames == {"ROOT", "Root", "root", "a"}

\* grammars of one to three rules with distinct names, in every order
StartGrammars ==
    UNION {{[i \in 1..k |-> Rule(f[i], Str("a"))] :
              f \in {g \in [1..k -> StartNames] :
                        \A i, j \in 1..k : i # j => g[i] # g[j]}} : k \in 1..3}

\* grammars made of one postfix form
RepeatGrammars ==
    {<<Rule("root", Rep(Str("a"), m, n))>> : m \in IntegerLiterals, n \in IntegerLiterals}
    \cup {<<Rule("root", Zom(Str("a"), N))>> : N \in IntegerLiterals}
    \cup {<<Rule("root", Oom(Str("a"), N))>> : N \in IntegerLiterals}
    \cup {<<Rule("root", Opt(Str("a")))>>}

OtherGrammars ==
    { <<>>,
      <<Rule("root", SeqOf(<<Str("a"), Str("bcd")>>))>>,
      <<Rule("root", ChoiceOf(<<Str("a"), Str("bcd")>>))>>,
      <<Rule("a", Str("y")), Rule("root", SeqOf(<<Ref("a"), Ref("a")>>))>>,
      <<Rule("root", Ref("ref")), Rule("ref", Str("z"))>>,
      <<Rule("a", Str("y")), Rule("a", Str("z"))>>,
      <<Rule("root", Ref("a")), Rule("a", Str("y")), Rule("a", Str("z"))>>,
      <<Rule("root", Ref("X"))>>,
      <<Rule("root", ChoiceOf(<<Str("a"), Ref("X")>>))>>,
      <<Rule("root", Opt(Ref("X")))>>,
      <<Rule("root", Str("a")), Rule("b", Ref("X"))>>,
      <<Rule("root", SeqOf(<<Str("a"), Opt(Ref("root"))>>))>>,
      <<Rule("a", Opt(Ref("b"))), Rule("b", SeqOf(<<Str("bcd"), Ref("a")>>))>>,
      <<Rule("root", Rep(SeqOf(<<Str("a"), Str("bcd")>>), <<2>>, <<2>>))>>,
      <<Rule("root", SeqOf(<<Oom(Str("a"), <<0>>), Str("bcd")>>))>> }

Grammars == StartGrammars \cup RepeatGrammars \cup OtherGrammars

\* ---------------------------------------------------------------------------
\* Parse actions (the grammar compiler)
\* ---------------------------------------------------------------------------
RuleTypes == {"String", "Sequence", "Choice", "Ref", "Repeat", "Named", "Root"}

isinstance_GeneratorRule(x) == x.type \in RuleTypes

\* int(str(token)) of a digit string: base-10 value
RECURSIVE int(_)
int(digits) ==
    IF digits = <<>> THEN 0
    ELSE 10 * int(SubSeq(digits, 1, Len(digits) - 1)) + digits[Len(digits)]

RepeatGeneratorRule(operand, minimum, maximum) ==
    [type |-> "Repeat", operand |-> operand, minimum |-> minimum, maximum |-> maximum]

action_make_opt(tokens) == RepeatGeneratorRule(tokens[1], 0, 1)

action_make_zom(tokens) == RepeatGeneratorRule(tokens[1], 0, int(tokens[2]))

action_make_oom(tokens) == RepeatGeneratorRule(tokens[1], 1, int(tokens[2]))

action_make_repeat(tokens) == RepeatGeneratorRule(tokens[1], int(tokens[2]), int(tokens[3]))

action_make_ref(tokens) == [type |-> "Ref", name |-> tokens[1]]

action_make_string(tokens) == [type |-> "String", text |-> tokens[1]]

action_make_sequence(tokens) ==
    [type |-> "Sequence", members |-> SelectSeq(tokens, isinstance_GeneratorRule)]

action_make_choice(tokens) ==
    [type |-> "Choice", members |-> SelectSeq(tokens, isinstance_GeneratorRule)]

action_make_named_rule(tokens) == [type |-> "Named", name |-> tokens[1], rule |-> tokens[2]]

action_make_root(tokens) ==
    [type |-> "Root", rules |-> SelectSeq(tokens, isinstance_GeneratorRule)]

\* grammar(): which parse action each syntactic form is bound to
RECURSIVE grammar(_)
grammar(t) ==
    CASE t.form = "string" -> action_make_string(<<t.text>>)
      [] t.form = "ref" -> action_make_ref(<<t.name>>)
      [] t.form = "opt" -> action_make_opt(<<grammar(t.operand)>>)
      [] t.form = "zom" -> action_make_zom(<<grammar(t.operand), t.N>>)
      [] t.form = "oom" -> action_make_oom(<<grammar(t.operand), t.N>>)
      [] t.form = "repeat" -> action_make_repeat(<<grammar(t.operand), t.m, t.n>>)
      [] t.form = "sequence" ->
            action_make_sequence([i \in 1..Len(t.items) |-> grammar(t.items[i])])
      [] t.form = "choice" ->
            action_make_choice([i \in 1..Len(t.items) |-> grammar(t.items[i])])
      [] t.form = "named" -> action_make_named_rule(<<t.name, grammar(t.body)>>)

parseString(text) == action_make_root([i \in 1..Len(text) |-> grammar(text[i])])

\* ---------------------------------------------------------------------------
\* State of a run
\* ---------------------------------------------------------------------------
VARIABLES
    language,           \* main: the grammar text
    generator,          \* main: result[0], the compiled Root
    rules,              \* State.rules, name -> Named rule
    sentence,           \* State.sentence
    depth,              \* State.depth
    length,             \* State.length
    maximum_depth,      \* State.maximum_depth
    maximum_length,     \* State.maximum_length
    stack,              \* the active random_walk calls, outermost first
    pc,                 \* position of main: parse, start, walk, raise, done, failed
    error,              \* the exception being raised, "" when none
    start,              \* history: name of the rule Root chose to walk
    scopes,             \* history: number of __enter__ calls that returned
    peak,               \* history: largest depth any __enter__ has produced
    entry_length,       \* history: length seen by the latest __enter__ that returned
    emitted_at,         \* history: entry_length in force when each token was appended
    undefined_entered,  \* history: a Ref to an unregistered name had its scope opened
    repeats             \* history: finished Repeat walks

vars == <<language, generator, rules, sentence, depth, length, maximum_depth,
          maximum_length, stack, pc, error, start, scopes, peak, entry_length,
          emitted_at, undefined_entered, repeats>>

None == [type |-> "None"]

\* dict.get(key, default)
get(d, key, default) == IF key \in DOMAIN d THEN d[key] ELSE default

\* a random_walk call that has been made and has not yet entered its scope
Frame(node) == [node |-> node, at |-> "enter", i |-> 0, count |-> 0]

Top == stack[Len(stack)]

Running(type, at) ==
    /\ pc = "walk"
    /\ stack # <<>>
    /\ Top.node.type = type
    /\ Top.at = at

\* the top call moves on to position `at`
Goto(at) == stack' = [stack EXCEPT ![Len(stack)].at = at]

\* the top call, continuing as `own`, calls node.random_walk(state)
Call(own, node) == stack' = Append([stack EXCEPT ![Len(stack)] = own], Frame(node))

\* raise RuntimeError(message) / ValueError from inside the top call's scope
Raise(message) ==
    /\ pc' = "raise"
    /\ error' = message

State_init ==
    /\ rules = <<>>
    /\ sentence = <<>>
    /\ depth = 0
    /\ length = 0

Init ==
    /\ language \in Grammars
    /\ generator = None
    /\ State_init
    /\ maximum_depth \in 0..MaxDepthBound
    /\ maximum_length \in -1..MaxLengthBound
    /\ stack = <<>>
    /\ pc = "parse"
    /\ error = ""
    /\ start = ""
    /\ scopes = 0
    /\ peak = 0
    /\ entry_length = 0
    /\ emitted_at = <<>>
    /\ undefined_entered = FALSE
    /\ repeats = {}

\* main: result = groot.parseString(language); generator = result[0]
main_parse ==
    /\ pc = "parse"
    /\ generator' = parseString(language)
    /\ pc' = "start"
    /\ UNCHANGED <<language, rules, sentence, depth, length, maximum_depth,
                   maximum_length, stack, error, start, scopes, peak, entry_length,
                   emitted_at, undefined_entered, repeats>>

\* ---------------------------------------------------------------------------
\* State.__enter__, State.__exit__, State.append
\* ---------------------------------------------------------------------------
\* variant: __enter__ without its depth test
enter_check_depth_unchecked(d, len, max_d, max_len) ==
    IF len > max_len THEN "sentence is too long" ELSE ""

\* outcome of __enter__ once depth has been incremented to d
enter_check(d, len, max_d, max_len) ==
    IF d > max_d THEN "stack is too deep"
    ELSE IF len > max_len THEN "sentence is too long"
    ELSE ""

\* `with state:` of the call on top of the stack. When __enter__ raises, the
\* with statement does not run __exit__ for that call.
State_enter ==
    /\ pc = "walk"
    /\ stack # <<>>
    /\ Top.at = "enter"
    /\ depth' = depth + 1
    /\ peak' = IF depth + 1 > peak THEN depth + 1 ELSE peak
    /\ LET outcome == enter_check(depth + 1, length, maximum_depth, maximum_length) IN
         IF outcome # ""
         THEN /\ Raise(outcome)
              /\ stack' = SubSeq(stack, 1, Len(stack) - 1)
              /\ UNCHANGED <<scopes, entry_length, undefined_entered>>
         ELSE /\ Goto("body")
              /\ scopes' = scopes + 1
              /\ entry_length' = length
              /\ undefined_entered' =
                    (undefined_entered
                        \/ (Top.node.type = "Ref" /\ Top.node.name \notin DOMAIN rules))
              /\ UNCHANGED <<pc, error>>
    /\ UNCHANGED <<language, generator, rules, sentence, length, maximum_depth,
                   maximum_length, start, emitted_at, repeats>>

\* a Repeat walk that has ended: how often it called operand.random_walk
RepeatRecord(frame, returned) ==
    [minimum |-> frame.node.minimum, maximum |-> frame.node.maximum,
     walked |-> frame.i, returned |-> returned]

\* __exit__ of the call on top of the stack: at the end of its with block, or
\* while an exception passes through it
State_exit ==
    /\ stack # <<>>
    /\ \/ pc = "walk" /\ Top.at = "exit"
       \/ pc = "raise"
    /\ depth' = depth - 1
    /\ stack' = SubSeq(stack, 1, Len(stack) - 1)
    /\ repeats' = IF Top.node.type = "Repeat"
                  THEN repeats \cup {RepeatRecord(Top, pc = "walk")}
                  ELSE repeats
    /\ pc' = IF pc = "walk" /\ Len(stack) = 1 THEN "done" ELSE pc
    /\ UNCHANGED <<language, generator, rules, sentence, length, maximum_depth,
                   maximum_length, error, start, scopes, peak, entry_length,
                   emitted_at, undefined_entered>>

\* main has no handler: the exception leaves generator.random_walk(state)
main_uncaught ==
    /\ pc = "raise"
    /\ stack = <<>>
    /\ pc' = "failed"
    /\ UNCHANGED <<language, generator, rules, sentence, depth, length, maximum_depth,
                   maximum_length, stack, error, start, scopes, peak, entry_length,
                   emitted_at, undefined_entered, repeats>>

\* variant: append counting tokens instead of characters
State_append_count(word) ==
    /\ sentence' = Append(sentence, word)
    /\ length' = length + 1

State_append(word) ==
    /\ sentence' = Append(sentence, word)
    /\ length' = length + Len(word)

\* ---------------------------------------------------------------------------
\* random_walk of each rule class, between its scope entry and exit
\* ---------------------------------------------------------------------------
StringGeneratorRule_random_walk ==
    /\ Running("String", "body")
    /\ State_append(Top.node.text)
    /\ emitted_at' = Append(emitted_at, entry_length)
    /\ Goto("exit")
    /\ UNCHANGED <<language, generator, rules, depth, maximum_depth, maximum_length,
                   pc, error, start, scopes, peak, entry_length, undefined_entered,
                   repeats>>

\* for item in self.members: item.random_walk(state)
SequenceGeneratorRule_random_walk ==
    /\ Running("Sequence", "body")
    /\ IF Top.i < Len(Top.node.members)
       THEN Call([Top EXCEPT !.i = @ + 1], Top.node.members[Top.i + 1])
       ELSE Goto("exit")
    /\ UNCHANGED <<language, generator, rules, sentence, depth, length, maximum_depth,
                   maximum_length, pc, error, start, scopes, peak, entry_length,
                   emitted_at, undefined_entered, repeats>>

\* random.choice(seq): any member
random_choice(seq) == {seq[k] : k \in 1..Len(seq)}

ChoiceGeneratorRule_random_walk ==
    /\ Running("Choice", "body")
    /\ \E option \in random_choice(Top.node.members) :
          Call([Top EXCEPT !.at = "exit"], option)
    /\ UNCHANGED <<language, generator, rules, sentence, depth, length, maximum_depth,
                   maximum_length, pc, error, start, scopes, peak, entry_length,
                   emitted_at, undefined_entered, repeats>>

\* variant: a Ref to an unregistered name walks nothing instead of raising
RefGeneratorRule_random_walk_lenient ==
    /\ Running("Ref", "body")
    /\ LET target == get(rules, Top.node.name, None) IN
         IF target = None
         THEN Goto("exit")
         ELSE Call([Top EXCEPT !.at = "exit"], target)
    /\ UNCHANGED <<language, generator, rules, sentence, depth, length, maximum_depth,
                   maximum_length, pc, error, start, scopes, peak, entry_length,
                   emitted_at, undefined_entered, repeats>>

RefGeneratorRule_random_walk ==
    /\ Running("Ref", "body")
    /\ LET target == get(rules, Top.node.name, None) IN
         IF target = None
         THEN /\ Raise("no such rule")
              /\ UNCHANGED stack
         ELSE /\ Call([Top EXCEPT !.at = "exit"], target)
              /\ UNCHANGED <<pc, error>>
    /\ UNCHANGED <<language, generator, rules, sentence, depth, length, maximum_depth,
                   maximum_length, start, scopes, peak, entry_length, emitted_at,
                   undefined_entered, repeats>>

\* variant: randint with an exclusive-style upper end, one too far
random_randint_wide(a, b) == a..(b + 1)

\* random.randint(a, b): any integer of a..b; ValueError when the range is empty
random_randint(a, b) == a..b

\* count = random.randint(self.minimum, self.maximum)
RepeatGeneratorRule_random_walk_draw ==
    /\ Running("Repeat", "body")
    /\ IF random_randint(Top.node.minimum, Top.node.maximum) = {}
       THEN /\ Raise("ValueError")
            /\ UNCHANGED stack
       ELSE /\ \E count \in random_randint(Top.node.minimum, Top.node.maximum) :
                  stack' = [stack EXCEPT ![Len(stack)] =
                               [@ EXCEPT !.at = "loop", !.count = count, !.i = 0]]
            /\ UNCHANGED <<pc, error>>
    /\ UNCHANGED <<language, generator, rules, sentence, depth, length, maximum_depth,
                   maximum_length, start, scopes, peak, entry_length, emitted_at,
                   undefined_entered, repeats>>

\* for i in range(0, count): self.operand.random_walk(state)
RepeatGeneratorRule_random_walk_loop ==
    /\ Running("Repeat", "loop")
    /\ IF Top.i < Top.count
       THEN Call([Top EXCEPT !.i = @ + 1], Top.node.operand)
       ELSE Goto("exit")
    /\ UNCHANGED <<language, generator, rules, sentence, depth, length, maximum_depth,
                   maximum_length, pc, error, start, scopes, peak, entry_length,
                   emitted_at, undefined_entered, repeats>>

NamedGeneratorRule_random_walk ==
    /\ Running("Named", "body")
    /\ Call([Top EXCEPT !.at = "exit"], Top.node.rule)
    /\ UNCHANGED <<language, generator, rules, sentence, depth, length, maximum_depth,
                   maximum_length, pc, error, start, scopes, peak, entry_length,
                   emitted_at, undefined_entered, repeats>>

\* for rule in self.rules: state.rules[rule.name] = rule
RECURSIVE register(_, _)
register(d, rs) ==
    IF rs = <<>> THEN d
    ELSE register([n \in DOMAIN d \cup {Head(rs).name} |->
                       IF n = Head(rs).name THEN Head(rs) ELSE d[n]], Tail(rs))

\* variant: random_walk without its `if self.rules` test
RootGeneratorRule_random_walk_unguarded ==
    /\ pc = "start"
    /\ rules' = register(rules, generator.rules)
    /\ stack' = <<Frame(generator)>>
    /\ pc' = "walk"
    /\ UNCHANGED <<language, generator, sentence, depth, length, maximum_depth,
                   maximum_length, error, start, scopes, peak, entry_length,
                   emitted_at, undefined_entered, repeats>>

\* RootGeneratorRule.random_walk up to its with statement
RootGeneratorRule_random_walk ==
    /\ pc = "start"
    /\ IF generator.rules # <<>>
       THEN /\ rules' = register(rules, generator.rules)
            /\ stack' = <<Frame(generator)>>
            /\ pc' = "walk"
       ELSE /\ pc' = "done"
            /\ UNCHANGED <<rules, stack>>
    /\ UNCHANGED <<language, generator, sentence, depth, length, maximum_depth,
                   maximum_length, error, start, scopes, peak, entry_length,
                   emitted_at, undefined_entered, repeats>>

\* variant: the first of the three names that is registered wins
select_root_first_hit(rs, d) ==
    IF "ROOT" \in DOMAIN d THEN d["ROOT"]
    ELSE IF "Root" \in DOMAIN d THEN d["Root"]
    ELSE IF "root" \in DOMAIN d THEN d["root"]
    ELSE rs[Len(rs)]

\* root = self.rules[-1], then the three state.rules.get lookups in turn
select_root(rs, d) ==
    LET last == rs[Len(rs)]
        r1 == get(d, "ROOT", last)
        r2 == get(d, "Root", r1)
        r3 == get(d, "root", r2)
    IN r3

\* variant: Root walks the body of the start rule, not its Named node
RootGeneratorRule_random_walk_body_unwrapped ==
    /\ Running("Root", "body")
    /\ LET root == select_root(Top.node.rules, rules) IN
         /\ Call([Top EXCEPT !.at = "exit"], root.rule)
         /\ start' = root.name
    /\ UNCHANGED <<language, generator, rules, sentence, depth, length, maximum_depth,
                   maximum_length, pc, error, scopes, peak, entry_length, emitted_at,
                   undefined_entered, repeats>>

\* RootGeneratorRule.random_walk inside its with statement
RootGeneratorRule_random_walk_body ==
    /\ Running("Root", "body")
    /\ LET root == select_root(Top.node.rules, rules) IN
         /\ Call([Top EXCEPT !.at = "exit"], root)
         /\ start' = root.name
    /\ UNCHANGED <<language, generator, rules, sentence, depth, length, maximum_depth,
                   maximum_length, pc, error, scopes, peak, entry_length, emitted_at,
                   undefined_entered, repeats>>

Next ==
    \/ main_parse
    \/ RootGeneratorRule_random_walk
    \/ RootGeneratorRule_random_walk_body
    \/ State_enter
    \/ State_exit
    \/ StringGeneratorRule_random_walk
    \/ SequenceGeneratorRule_random_walk
    \/ ChoiceGeneratorRule_random_walk
    \/ RefGeneratorRule_random_walk
    \/ RepeatGeneratorRule_random_walk_draw
    \/ RepeatGeneratorRule_random_walk_loop
    \/ NamedGeneratorRule_random_walk
    \/ main_uncaught

Spec == Init /\ [][Next]_vars

\* ---------------------------------------------------------------------------
\* Properties
\* ---------------------------------------------------------------------------
Finished == pc \in {"done", "failed"}

\* all nodes of a rule tree
RECURSIVE Subrules(_)
Subrules(node) ==
    {node} \cup
    CASE node.type \in {"Sequence", "Choice"} ->
            UNION {Subrules(node.members[i]) : i \in 1..Len(node.members)}
      [] node.type = "Repeat" -> Subrules(node.operand)
      [] node.type = "Named" -> Subrules(node.rule)
      [] node.type = "Root" -> UNION {Subrules(node.rules[i]) : i \in 1..Len(node.rules)}
      [] OTHER -> {}

\* names given to Named rules of the compiled grammar
DefinedNames == {n.name : n \in {m \in Subrules(generator) : m.type = "Named"}}

\* names some Reference of the compiled grammar uses without any Named rule
UndefinedNames ==
    {n.name : n \in {m \in Subrules(generator) : m.type = "Ref"}} \ DefinedNames

LastName == generator.rules[Len(generator.rules)].name

RECURSIVE SumLen(_)
SumLen(tokens) == IF tokens = <<>> THEN 0 ELSE Len(Head(tokens)) + SumLen(Tail(tokens))

\* C1 (as stated): the rule Root walks is "ROOT" if defined, else "Root", else
\* "root", else the last Named rule in source order.
C1_RootFirst ==
    start # "" =>
        start = IF "ROOT" \in DefinedNames THEN "ROOT"
                ELSE IF "Root" \in DefinedNames THEN "Root"
                ELSE IF "root" \in DefinedNames THEN "root"
                ELSE LastName

\* C1 (amended): the rule Root walks is "root" if defined, else "Root", else
\* "ROOT", else the last Named rule in source order.
C1_LowercaseFirst ==
    start # "" =>
        start = IF "root" \in DefinedNames THEN "root"
                ELSE IF "Root" \in DefinedNames THEN "Root"
                ELSE IF "ROOT" \in DefinedNames THEN "ROOT"
                ELSE LastName

C1_Witness ==
    /\ pc = "done"
    /\ {"ROOT", "root"} \subseteq DefinedNames
    /\ LastName = "a"
    /\ start = "root"

\* C2 (as stated): a run on a grammar that has a Reference to a name without a
\* Named rule ends in the Unknown Rule failure.
C2_AlwaysUnknownRule ==
    (Finished /\ UndefinedNames # {}) => (pc = "failed" /\ error = "no such rule")

\* C2 (amended): once the scope of a Reference to a name without a Named rule
\* has been opened, the walk raises Unknown Rule at that Reference and the run
\* ends in that failure, never in success.
C2_WalkedUnknownRule ==
    undefined_entered =>
        \/ /\ pc = "walk"
           /\ Top.node.type = "Ref"
           /\ Top.node.name \in UndefinedNames
           /\ Top.at = "body"
        \/ /\ pc \in {"raise", "failed"}
           /\ error = "no such rule"

C2_Witness ==
    /\ undefined_entered
    /\ pc = "failed"
    /\ generator.rules[1].rule.type = "Repeat"

\* C3: a successful run ends with depth 0, no scope entry took depth above
\* maximum_depth, and every token was appended after a scope-entry check that
\* saw a length of at most maximum_length.
C3_BoundsRespected ==
    pc = "done" =>
        /\ depth = 0
        /\ peak <= maximum_depth
        /\ \A k \in 1..Len(emitted_at) : emitted_at[k] <= maximum_length

C3_Witness ==
    /\ pc = "done"
    /\ Len(sentence) = 2
    /\ peak = maximum_depth
    /\ emitted_at[2] = maximum_length

\* C4: every Repeat node of the compiled grammar has 0 <= minimum <= maximum.
C4_RepeatOrdered ==
    generator # None =>
        \A r \in {m \in Subrules(generator) : m.type = "Repeat"} :
            0 <= r.minimum /\ r.minimum <= r.maximum

\* C5 (as stated): every Repeat walk, in successful and failed runs alike,
\* walks its operand between minimum and maximum times.
C5_AlwaysWithinBounds ==
    \A r \in repeats : r.minimum <= r.walked /\ r.walked <= r.maximum

\* C5 (amended): a Repeat walk never walks its operand more than maximum
\* times, and one that returns normally has walked it at least minimum times.
C5_WithinBoundsOnReturn ==
    /\ \A r \in repeats :
          /\ r.walked <= r.maximum
          /\ r.returned => r.minimum <= r.walked
    /\ \A k \in 1..Len(stack) :
          stack[k].node.type = "Repeat" => stack[k].i <= stack[k].node.maximum

C5_Witness ==
    \E r \in repeats :
        /\ r.returned
        /\ r.minimum < r.maximum
        /\ r.walked = r.maximum

\* C6: a run that fails ends in Depth Exceeded, Length Exceeded or Unknown
\* Rule, and in no other kind of failure.
C6_FailureKinds ==
    pc = "failed" => error \in {"stack is too deep", "sentence is too long", "no such rule"}

\* C7: walking a Root without rules succeeds with no token and leaves the
\* state as constructed, opening no scope, whatever the two ceilings are.
C7_EmptyRoot ==
    language = <<>> =>
        /\ pc \in {"parse", "start", "done"}
        /\ error = ""
        /\ sentence = <<>>
        /\ depth = 0
        /\ length = 0
        /\ DOMAIN rules = {}
        /\ stack = <<>>
        /\ scopes = 0
        /\ peak = 0

C7_Witness ==
    /\ language = <<>>
    /\ pc = "done"
    /\ maximum_depth = 0
    /\ maximum_length = -1

\* C8: after any run, successful or failed, depth is back to 0.
C8_DepthRestored == Finished => depth = 0

\* C9 (as stated): no Named node is ever walked, and the walk of
\* root = "a" ; opens two scopes.
C9_NamedNeverWalked ==
    /\ \A k \in 1..Len(stack) : stack[k].node.type # "Named"
    /\ (language = <<Rule("root", Str("a"))>> /\ pc = "done") => (scopes = 2 /\ peak = 2)

\* C9 (amended): Root walks the Named node of the start rule and a Reference
\* walks the Named node registered under its name, each in a scope of its own;
\* Named nodes are walked nowhere else; the walk of root = "a" ; opens three
\* scopes (Root, Named, Literal).
C9_NamedWalked ==
    /\ \A k \in 1..Len(stack) - 1 :
          /\ stack[k].node.type = "Root" =>
                /\ stack[k + 1].node.type = "Named"
                /\ stack[k + 1].node.name = start
                /\ stack[k + 1].node = rules[start]
          /\ stack[k].node.type = "Ref" =>
                stack[k + 1].node = rules[stack[k].node.name]
          /\ stack[k + 1].node.type = "Named" => stack[k].node.type \in {"Root", "Ref"}
          /\ stack[k].node.type = "Named" => stack[k + 1].node = stack[k].node.rule
    /\ stack # <<>> => stack[1].node.type = "Root"
    /\ \A n \in DOMAIN rules : rules[n].type = "Named"
    /\ (language = <<Rule("root", Str("a"))>> /\ pc = "done") => (scopes = 3 /\ peak = 3)

C9_Witness ==
    /\ pc = "walk"
    /\ Len(stack) = 5
    /\ stack[3].node.type = "Ref"
    /\ stack[4].node.type = "Named"
    /\ stack[5].node.type = "String"
    /\ stack[5].at = "exit"
    /\ depth = 5

\* C10: length is always the total length of the tokens of sentence; without
\* its latest token it is at most maximum_length; and once length is above
\* maximum_length no further scope is entered.
C10_Overshoot ==
    /\ [](/\ length = SumLen(sentence)
          /\ sentence # <<>> =>
                length - Len(sentence[Len(sentence)]) <= maximum_length)
    /\ [][length > maximum_length => scopes' = scopes]_vars

C10_Witness ==
    /\ pc = "done"
    /\ length > maximum_length
    /\ Len(sentence) = 2

====
